---- MODULE Spec2Model ----
(***************************************************************************)
(* Model of src/rpc/claimtrie.cpp (lbrycrd): the claimtrie RPC queries.    *)
(*                                                                         *)
(*   Spec        a historical query: BlockHashIndex, RollBackTo and the    *)
(*               lookups that follow it, one step of the code per action,  *)
(*               with the cancellation signals set asynchronously.        *)
(*   SpecSeq     seqSort applied to the claims of one name.                *)
(*   SpecAmount  amountToClaim / claimAndSupportsToJSON applied to one     *)
(*               claim with its supports.                                  *)
(*   SpecId      getclaimbyid on a request and an identifier index.        *)
(*   SpecView    getclaimsforname at a block: RollBackTo, then the claims  *)
(*               of the rewound view turned into records.                 *)
(*   SpecById    getvalueforname / getnameproof with a block hash and a    *)
(*               claim identifier.                                        *)
(*   SpecProof   getclaimproofbybid / getclaimproofbyseq on a position.    *)
(*   SpecLock    the handlers and the chain mutator around cs_main.        *)
(***************************************************************************)
EXTENDS Integers, Sequences, FiniteSets, TLC

(* ------------------------------------------------------------------ *)
(* Program constants                                                   *)
(* ------------------------------------------------------------------ *)

\* #define MAX_RPC_BLOCK_DECREMENTS 500
MAX_RPC_BLOCK_DECREMENTS == 500
\* static constexpr size_t claimIdHexLength = 40
claimIdHexLength == 40

(* ------------------------------------------------------------------ *)
(* Bounds of the model                                                 *)
(* ------------------------------------------------------------------ *)

\* The active chain has the blocks of heights 0 .. TipHeight.
TipHeight == 502
\* A query's target is at most MaxShallow blocks below the tip, or at least
\* MAX_RPC_BLOCK_DECREMENTS blocks below it (the two ends of the depth check).
MaxShallow == 2
\* nCoinCacheUsage (-dbcache) is drawn from 1 .. MaxBudget.
MaxBudget == 2
\* pcoinsTip->DynamicMemoryUsage() is drawn from 0 .. MaxTipUsage.
MaxTipUsage == 1
\* coinsCache.DynamicMemoryUsage() is counted up to MaxCacheUsage.
MaxCacheUsage == 3
\* A name has at most MaxClaims claims; output indexes are 0 .. MaxClaims - 1.
MaxClaims == 3
\* A claim has at most MaxSupports supports.
MaxSupports == 2
\* Requests give the identifier's first MaxPartialLen characters freely (the
\* rest, if any, is zeros).
MaxPartialLen == 3
\* The identifier index has at most MaxIndexEntries entries.
MaxIndexEntries == 2

VARIABLES
    \* ---- process-wide state
    chainTip,            \* chainActive.Tip()->nHeight
    pcoinsTipUsage,      \* pcoinsTip->DynamicMemoryUsage()
    nCoinCacheUsage,     \* the configured cache budget
    interruptRequested,  \* the RPC thread's boost interruption flag
    shutdownRequested,   \* ShutdownRequested()
    \* ---- the running query (its locals and what it has done)
    pc,                  \* position of the query in its handler / RollBackTo
    historical,          \* the request carries a block hash
    targetIndex,         \* RollBackTo's targetIndex (a height of the active chain)
    activeIndex,         \* RollBackTo's activeIndex (a height; -1 is the null pprev)
    currentMemoryUsage,  \* RollBackTo's sample of the tip cache usage
    coinsCacheUsage,     \* coinsCache.DynamicMemoryUsage() of the query's cache
    blockReads,          \* heights given to ReadBlockFromDisk, in call order
    lastRead,            \* what the last ReadBlockFromDisk returned
    disconnects,         \* heights given to DisconnectBlock, in call order
    lastDisconnect,      \* what the last DisconnectBlock returned
    interruptPolls,      \* interruption_point() calls of this rewind
    shutdownPolls,       \* ShutdownRequested() calls of this rewind
    memChecks,           \* memory comparisons of this rewind
    merkleHashedAfter,   \* Len(disconnects) when getMerkleHash ran, -1: never ran
    lookups,             \* reads of the query's (coinsCache, trieCache) view
    err,                 \* the error the query threw, "none" if none
    result,              \* "none", or "view": a result built from the view
    \* ---- seqSort
    source,              \* seqSort's argument: csToName.claimsNsupports, in bid order
    seqOrder,            \* seqSort's return value, << >> before the call
    \* ---- claimAndSupportsToJSON
    claimNsupports,      \* the argument: a claim, its supports, its effective amount
    fullAmount,          \* claimAndSupportsToJSON's local, -1 before the call
    json,                \* the returned object, << >> before the call
    \* ---- getclaimbyid
    claimIndex,          \* pclaimTrie->db: its entries, in the iterator's order
    request,             \* request.params[0]
    dbReads,             \* db->Read calls (point lookups) of the query
    iterators,           \* db->NewIterator calls (scans started) of the query
    scanned,             \* entries the iterator was moved over (0 without a scan)
    handler,             \* the RPC handler the query runs
    position,            \* the bid or seq parameter of a proof query, 0 by default
    proofBuilds,         \* trieCache.getProofForName calls of the query
    cs_main,             \* who holds the lock cs_main: "none", "query", "mutator"
    connecting,          \* the chain mutator is connecting or disconnecting a block
    racyRead,            \* the query read shared state while connecting was true
    ret                  \* the returned object, << >> before the return

rewindVars ==
    << chainTip, pcoinsTipUsage, nCoinCacheUsage, interruptRequested,
       shutdownRequested, pc, historical, targetIndex, activeIndex,
       currentMemoryUsage, coinsCacheUsage, blockReads, lastRead, disconnects,
       lastDisconnect, interruptPolls, shutdownPolls, memChecks,
       merkleHashedAfter, lookups, err, result >>

seqVars == << source, seqOrder >>
amountVars == << claimNsupports, fullAmount, json >>

idVars ==
    << claimIndex, request, dbReads, iterators, scanned, handler, position,
       proofBuilds, cs_main, connecting, racyRead, ret >>

vars == << rewindVars, seqVars, amountVars, idVars >>

(* ------------------------------------------------------------------ *)
(* RollBackTo: the tests of the code, as operators                     *)
(* ------------------------------------------------------------------ *)

E_BLOCK_NOT_FOUND == "Block not found"
E_TOO_DEEP == "Block is too deep"
E_INTERRUPTED == "thread_interrupted"
E_READ == "Failed to read"
E_OOM == "Out of memory, you may want to increase dbcache size"
E_SHUTDOWN == "Shutdown requested"
E_DISCONNECT == "Failed to disconnect"

\* CBlockIndex::pprev, on heights: the genesis block's pprev is null (-1).
Pprev(h) == h - 1

\* (a depth check that is off by one: >= for >)
TooDeep_OffByOne(activeHeight, targetHeight) ==
    activeHeight >= targetHeight + MAX_RPC_BLOCK_DECREMENTS

\* activeIndex->nHeight > (targetIndex->nHeight + MAX_RPC_BLOCK_DECREMENTS)
TooDeep(activeHeight, targetHeight) ==
    activeHeight > targetHeight + MAX_RPC_BLOCK_DECREMENTS

\* (a loop that stops one block above the target)
LoopContinues_StopsEarly(active, target) ==
    active >= 0 /\ active # target /\ active # target + 1

\* for (; activeIndex && activeIndex != targetIndex; ...)
LoopContinues(active, target) ==
    active >= 0 /\ active # target

\* (a RollBackTo that returns without the getMerkleHash call)
AfterLoop_NoHash == "lookup"

\* the statement after the loop: trieCache.getMerkleHash()
AfterLoop == "getMerkleHash"

\* boost::this_thread::interruption_point() throws iff the flag is set
InterruptionPointThrows(flag) == flag

\* (ReadBlockFromDisk's return value ignored)
AfterRead_Unchecked(ok) == "memcheck"

\* if (!ReadBlockFromDisk(...)) throw
AfterRead(ok) == IF ok THEN "memcheck" ELSE "failed"

\* (a budget check that forgets the tip cache's share)
OutOfMemory_CacheOnly(cacheUsage, sampledTipUsage, budget) ==
    cacheUsage > budget

\* coinsCache.DynamicMemoryUsage() + currentMemoryUsage > nCoinCacheUsage
OutOfMemory(cacheUsage, sampledTipUsage, budget) ==
    cacheUsage + sampledTipUsage > budget

\* (a loop without the shutdown poll)
ShutdownPollThrows_Never(flag) == FALSE

\* if (ShutdownRequested()) throw
ShutdownPollThrows(flag) == flag

\* if (DisconnectBlock(...) != DisconnectResult::DISCONNECT_OK) throw
AfterDisconnect(res) == IF res # "DISCONNECT_OK" THEN "failed" ELSE "loop"

DisconnectResults == {"DISCONNECT_OK", "DISCONNECT_UNCLEAN", "DISCONNECT_FAILED"}

\* (a DisconnectBlock that works on the tip's own state, or whose caches are
\* flushed: the tip steps back with every block disconnected)
LiveTipAfterDisconnect_Flushed(tipHeight, res) ==
    IF res = "DISCONNECT_OK" THEN tipHeight - 1 ELSE tipHeight

\* DisconnectBlock(block, activeIndex, coinsCache, trieCache) writes to the two
\* caches it is given, the query's; nothing in the file flushes them, so
\* chainActive, pcoinsTip and pclaimTrie stay as of the tip.
LiveTipAfterDisconnect(tipHeight, res) == tipHeight

\* Heights a request's block hash may name: BlockHashIndex only lets blocks of
\* the active chain through.
TargetHeights ==
    { h \in 0..TipHeight :
        TipHeight - h <= MaxShallow \/ TipHeight - h >= MAX_RPC_BLOCK_DECREMENTS }

(* ------------------------------------------------------------------ *)
(* Initial state                                                       *)
(* ------------------------------------------------------------------ *)

\* no chain mutator at work (the lock is modelled in SpecLock only)
NoMutator ==
    /\ cs_main = "none"
    /\ connecting = FALSE
    /\ racyRead = FALSE

\* no getclaimbyid query: an empty index and no request
NoIdQuery ==
    /\ claimIndex = << >>
    /\ request = << >>
    /\ dbReads = 0
    /\ iterators = 0
    /\ scanned = 0
    /\ position = 0
    /\ proofBuilds = 0
    /\ NoMutator
    /\ ret = << >>

QueryLocalsInit ==
    /\ pc = "idle"
    /\ historical = FALSE
    /\ targetIndex = -1
    /\ activeIndex = -1
    /\ currentMemoryUsage = 0
    /\ coinsCacheUsage = 0
    /\ blockReads = << >>
    /\ lastRead = "none"
    /\ disconnects = << >>
    /\ lastDisconnect = "none"
    /\ interruptPolls = 0
    /\ shutdownPolls = 0
    /\ memChecks = 0
    /\ merkleHashedAfter = -1
    /\ lookups = 0
    /\ err = "none"
    /\ result = "none"

Init ==
    /\ chainTip = TipHeight
    /\ pcoinsTipUsage \in 0..MaxTipUsage
    /\ nCoinCacheUsage \in 1..MaxBudget
    /\ interruptRequested = FALSE
    /\ shutdownRequested = FALSE
    /\ QueryLocalsInit
    /\ source = << >>
    /\ seqOrder = << >>
    /\ claimNsupports = << >>
    /\ fullAmount = -1
    /\ json = << >>
    /\ NoIdQuery
    /\ handler = "getclaimsforname"

(* ------------------------------------------------------------------ *)
(* The cancellation signals, set by other threads at any time          *)
(* ------------------------------------------------------------------ *)

process == << chainTip, pcoinsTipUsage, nCoinCacheUsage >>
signals == << interruptRequested, shutdownRequested >>
locals ==
    << pc, historical, targetIndex, activeIndex, currentMemoryUsage,
       coinsCacheUsage, blockReads, lastRead, disconnects, lastDisconnect,
       interruptPolls, shutdownPolls, memChecks, merkleHashedAfter, lookups,
       err, result >>

\* another thread interrupts the RPC thread
InterruptThread ==
    /\ UNCHANGED << seqVars, amountVars, idVars >>
    /\ ~interruptRequested
    /\ interruptRequested' = TRUE
    /\ UNCHANGED << process, shutdownRequested, locals >>

\* StartShutdown(): the flag is never cleared
StartShutdown ==
    /\ UNCHANGED << seqVars, amountVars, idVars >>
    /\ ~shutdownRequested
    /\ shutdownRequested' = TRUE
    /\ UNCHANGED << process, interruptRequested, locals >>

(* ------------------------------------------------------------------ *)
(* A query with an optional block hash (getclaimsforname and the like) *)
(* ------------------------------------------------------------------ *)

Throw(e) ==
    /\ pc' = "failed"
    /\ err' = e

\* LOCK(cs_main); the two caches are constructed on the tip; without a block
\* hash the handler goes straight to its lookups. (A claim identifier is the
\* parameter after the block hash: a request that has one has a block hash.)
QueryAtTip ==
    /\ UNCHANGED << seqVars, amountVars, idVars >>
    /\ pc = "idle"
    /\ request = << >>
    /\ historical' = FALSE
    /\ pc' = "lookup"
    /\ UNCHANGED << process, signals, targetIndex, activeIndex,
                    currentMemoryUsage, coinsCacheUsage, blockReads, lastRead,
                    disconnects, lastDisconnect, interruptPolls, shutdownPolls,
                    memChecks, merkleHashedAfter, lookups, err, result >>

\* BlockHashIndex: a hash that names no block of the active chain is an error,
\* any other gives the target of RollBackTo.
QueryAtBlock ==
    /\ UNCHANGED << seqVars, amountVars, idVars >>
    /\ pc = "idle"
    /\ historical' = TRUE
    /\ \/ /\ \E h \in TargetHeights : targetIndex' = h
          /\ pc' = "RollBackTo"
          /\ err' = err
       \/ /\ targetIndex' = targetIndex
          /\ Throw(E_BLOCK_NOT_FOUND)
    /\ UNCHANGED << process, signals, activeIndex, currentMemoryUsage,
                    coinsCacheUsage, blockReads, lastRead, disconnects,
                    lastDisconnect, interruptPolls, shutdownPolls, memChecks,
                    merkleHashedAfter, lookups, result >>

\* RollBackTo, up to the loop: the depth check and the sample of the tip usage.
RollBackToEnter ==
    /\ UNCHANGED << seqVars, amountVars, idVars >>
    /\ pc = "RollBackTo"
    /\ activeIndex' = chainTip
    /\ IF TooDeep(chainTip, targetIndex)
       THEN /\ Throw(E_TOO_DEEP)
            /\ currentMemoryUsage' = currentMemoryUsage
       ELSE /\ currentMemoryUsage' = pcoinsTipUsage
            /\ pc' = "loop"
            /\ err' = err
    /\ UNCHANGED << process, signals, historical, targetIndex, coinsCacheUsage,
                    blockReads, lastRead, disconnects, lastDisconnect,
                    interruptPolls, shutdownPolls, memChecks,
                    merkleHashedAfter, lookups, result >>

\* the loop's test
LoopTest ==
    /\ UNCHANGED << seqVars, amountVars, idVars >>
    /\ pc = "loop"
    /\ pc' = IF LoopContinues(activeIndex, targetIndex)
             THEN "interruption_point" ELSE AfterLoop
    /\ UNCHANGED << process, signals, historical, targetIndex, activeIndex,
                    currentMemoryUsage, coinsCacheUsage, blockReads, lastRead,
                    disconnects, lastDisconnect, interruptPolls, shutdownPolls,
                    memChecks, merkleHashedAfter, lookups, err, result >>

\* boost::this_thread::interruption_point(): throws and clears the flag
InterruptionPoint ==
    /\ UNCHANGED << seqVars, amountVars, idVars >>
    /\ pc = "interruption_point"
    /\ interruptPolls' = interruptPolls + 1
    /\ IF InterruptionPointThrows(interruptRequested)
       THEN /\ Throw(E_INTERRUPTED)
            /\ interruptRequested' = FALSE
       ELSE /\ pc' = "ReadBlockFromDisk"
            /\ err' = err
            /\ interruptRequested' = interruptRequested
    /\ UNCHANGED << process, shutdownRequested, historical, targetIndex,
                    activeIndex, currentMemoryUsage, coinsCacheUsage,
                    blockReads, lastRead, disconnects, lastDisconnect,
                    shutdownPolls, memChecks, merkleHashedAfter, lookups,
                    result >>

\* ReadBlockFromDisk(block, activeIndex, ...): the disk decides
ReadBlock ==
    /\ UNCHANGED << seqVars, amountVars, idVars >>
    /\ pc = "ReadBlockFromDisk"
    /\ blockReads' = Append(blockReads, activeIndex)
    /\ \E ok \in BOOLEAN :
        /\ lastRead' = IF ok THEN "ok" ELSE "fail"
        /\ pc' = AfterRead(ok)
        /\ err' = IF AfterRead(ok) = "failed" THEN E_READ ELSE err
    /\ UNCHANGED << process, signals, historical, targetIndex, activeIndex,
                    currentMemoryUsage, coinsCacheUsage, disconnects,
                    lastDisconnect, interruptPolls, shutdownPolls, memChecks,
                    merkleHashedAfter, lookups, result >>

\* the memory budget
MemCheck ==
    /\ UNCHANGED << seqVars, amountVars, idVars >>
    /\ pc = "memcheck"
    /\ memChecks' = memChecks + 1
    /\ IF OutOfMemory(coinsCacheUsage, currentMemoryUsage, nCoinCacheUsage)
       THEN Throw(E_OOM)
       ELSE /\ pc' = "ShutdownRequested"
            /\ err' = err
    /\ UNCHANGED << process, signals, historical, targetIndex, activeIndex,
                    currentMemoryUsage, coinsCacheUsage, blockReads, lastRead,
                    disconnects, lastDisconnect, interruptPolls, shutdownPolls,
                    merkleHashedAfter, lookups, result >>

\* if (ShutdownRequested()) throw
ShutdownPoll ==
    /\ UNCHANGED << seqVars, amountVars, idVars >>
    /\ pc = "ShutdownRequested"
    /\ shutdownPolls' = shutdownPolls + 1
    /\ IF ShutdownPollThrows(shutdownRequested)
       THEN Throw(E_SHUTDOWN)
       ELSE /\ pc' = "DisconnectBlock"
            /\ err' = err
    /\ UNCHANGED << process, signals, historical, targetIndex, activeIndex,
                    currentMemoryUsage, coinsCacheUsage, blockReads, lastRead,
                    disconnects, lastDisconnect, interruptPolls, memChecks,
                    merkleHashedAfter, lookups, result >>

\* g_chainstate.DisconnectBlock(block, activeIndex, coinsCache, trieCache): one
\* call, which fetches coins into the query's cache; then the loop's step
\* activeIndex = activeIndex->pprev.
DisconnectBlock ==
    /\ UNCHANGED << seqVars, amountVars, idVars >>
    /\ pc = "DisconnectBlock"
    /\ disconnects' = Append(disconnects, activeIndex)
    /\ \E grow \in 0..1 :
        coinsCacheUsage' = IF coinsCacheUsage + grow > MaxCacheUsage
                           THEN MaxCacheUsage ELSE coinsCacheUsage + grow
    /\ \E res \in DisconnectResults :
        /\ lastDisconnect' = res
        /\ pc' = AfterDisconnect(res)
        /\ err' = IF AfterDisconnect(res) = "failed" THEN E_DISCONNECT ELSE err
        /\ activeIndex' = IF AfterDisconnect(res) = "failed"
                          THEN activeIndex ELSE Pprev(activeIndex)
        /\ chainTip' = LiveTipAfterDisconnect(chainTip, res)
    /\ UNCHANGED << pcoinsTipUsage, nCoinCacheUsage, signals, historical, targetIndex,
                    currentMemoryUsage, blockReads, lastRead, interruptPolls,
                    shutdownPolls, memChecks, merkleHashedAfter, lookups,
                    result >>

\* trieCache.getMerkleHash(); RollBackTo returns to the handler
GetMerkleHash ==
    /\ UNCHANGED << seqVars, amountVars, idVars >>
    /\ pc = "getMerkleHash"
    /\ merkleHashedAfter' = Len(disconnects)
    /\ pc' = "lookup"
    /\ UNCHANGED << process, signals, historical, targetIndex, activeIndex,
                    currentMemoryUsage, coinsCacheUsage, blockReads, lastRead,
                    disconnects, lastDisconnect, interruptPolls, shutdownPolls,
                    memChecks, lookups, err, result >>

\* the handler returns or unwinds: its caches are destroyed, cs_main is released
EndQuery ==
    /\ UNCHANGED << seqVars, amountVars, idVars >>
    /\ pc \in {"done", "failed"}
    /\ pc' = "idle"
    /\ historical' = FALSE
    /\ targetIndex' = -1
    /\ activeIndex' = -1
    /\ currentMemoryUsage' = 0
    /\ coinsCacheUsage' = 0
    /\ blockReads' = << >>
    /\ lastRead' = "none"
    /\ disconnects' = << >>
    /\ lastDisconnect' = "none"
    /\ interruptPolls' = 0
    /\ shutdownPolls' = 0
    /\ memChecks' = 0
    /\ merkleHashedAfter' = -1
    /\ lookups' = 0
    /\ err' = "none"
    /\ result' = "none"
    /\ UNCHANGED << process, signals >>

(* ------------------------------------------------------------------ *)
(* seqSort                                                             *)
(* ------------------------------------------------------------------ *)

\* The rewind variables of a process in which no query with a block hash runs.
NoRewind ==
    /\ chainTip = TipHeight
    /\ pcoinsTipUsage = 0
    /\ nCoinCacheUsage = 1
    /\ interruptRequested = FALSE
    /\ shutdownRequested = FALSE
    /\ historical = FALSE
    /\ targetIndex = -1
    /\ activeIndex = -1
    /\ currentMemoryUsage = 0
    /\ coinsCacheUsage = 0
    /\ blockReads = << >>
    /\ lastRead = "none"
    /\ disconnects = << >>
    /\ lastDisconnect = "none"
    /\ interruptPolls = 0
    /\ shutdownPolls = 0
    /\ memChecks = 0
    /\ merkleHashedAfter = -1
    /\ lookups = 0
    /\ err = "none"
    /\ result = "none"

\* the heights claims are registered at
Heights == {99, 100}
OutputIndexes == 0..(MaxClaims - 1)

\* A CClaimValue: claimId, outPoint (hash, n), nHeight (the height the claim was
\* registered or last updated at) and nValidAtHeight (the height it becomes
\* effective at: nHeight, or later when the registry delays its activation).
\* Each claim sits in a transaction of its own (outPoint.hash = claimId here), so
\* two claims may carry the same output index.
CClaimValue(id, h, delayed, n) ==
    [ claimId |-> id,
      outPoint |-> [hash |-> id, n |-> n],
      nHeight |-> h,
      nValidAtHeight |-> IF delayed THEN h + 2 ELSE h,
      nAmount |-> 20 ]

ClaimChoices == Heights \X BOOLEAN \X OutputIndexes

\* What getClaimsForName may return for a name: claims in the registry's bid
\* order, with distinct identifiers; f gives each claim's height, whether its
\* activation was delayed, and its output index.
ClaimList(k, f) ==
    [i \in 1..k |->
        [ claim |-> CClaimValue(i, f[i][1], f[i][2], f[i][3]),
          effectiveAmount |-> CClaimValue(i, f[i][1], f[i][2], f[i][3]).nAmount,
          supports |-> << >> ]]

\* (a comparator that compares the output index first)
SeqLess_IndexFirst(lhs, rhs) ==
    \/ lhs.claim.outPoint.n < rhs.claim.outPoint.n
    \/ /\ lhs.claim.outPoint.n = rhs.claim.outPoint.n
       /\ lhs.claim.nHeight < rhs.claim.nHeight

\* the lambda given to std::sort
SeqLess(lhs, rhs) ==
    \/ lhs.claim.nHeight < rhs.claim.nHeight
    \/ /\ lhs.claim.nHeight = rhs.claim.nHeight
       /\ lhs.claim.outPoint.n < rhs.claim.outPoint.n

\* std::sort on a short range is an insertion sort: each element moves down
\* past the elements it compares less than.
RECURSIVE Insert(_, _)
Insert(sorted, x) ==
    IF sorted = << >> \/ ~SeqLess(x, sorted[Len(sorted)])
    THEN Append(sorted, x)
    ELSE Append(Insert(SubSeq(sorted, 1, Len(sorted) - 1), x), sorted[Len(sorted)])

RECURSIVE InsertionSort(_)
InsertionSort(s) ==
    IF s = << >> THEN << >>
    ELSE Insert(InsertionSort(SubSeq(s, 1, Len(s) - 1)), s[Len(s)])

\* std::sort does not say in which order it leaves elements neither of which
\* compares less than the other: any order of them may come out. IndexPermutations
\* of 1..n that move only such elements:
IndexPermutations ==
    [ n \in 0..MaxClaims |->
        { p \in [1..n -> 1..n] : \A i, j \in 1..n : i # j => p[i] # p[j] } ]

Tied(s) ==
    { i \in 1..Len(s) :
        \E j \in 1..Len(s) :
            j # i /\ ~SeqLess(s[i], s[j]) /\ ~SeqLess(s[j], s[i]) }

TiePermutations(s) ==
    LET tied == Tied(s)
    IN  { p \in IndexPermutations[Len(s)] :
            \A i \in 1..Len(s) : i \notin tied => p[i] = i }

\* seqSort(source): the copy of source, sorted
seqSort(s) ==
    { InsertionSort([i \in 1..Len(s) |-> s[p[i]]]) : p \in TiePermutations(s) }

InitSeq ==
    /\ NoRewind
    /\ \E k \in 0..MaxClaims :
        \/ /\ pc = "seqSort"
           /\ \E f \in [1..k -> ClaimChoices] : source = ClaimList(k, f)
        \/ /\ pc = "getclaimsforname"
           /\ \E f \in [1..k -> Heights \X {FALSE} \X OutputIndexes] :
                source = ClaimList(k, f)
    /\ seqOrder = << >>
    /\ claimNsupports = << >>
    /\ fullAmount = -1
    /\ json = << >>
    /\ NoIdQuery
    /\ handler = "getclaimsforname"

SeqSort ==
    /\ pc = "seqSort"
    /\ seqOrder' \in seqSort(source)
    /\ pc' = "seqSort:returned"
    /\ UNCHANGED << process, signals, historical, targetIndex, activeIndex,
                    currentMemoryUsage, coinsCacheUsage, blockReads, lastRead,
                    disconnects, lastDisconnect, interruptPolls, shutdownPolls,
                    memChecks, merkleHashedAfter, lookups, err, result,
                    source, amountVars, idVars >>

(* ------------------------------------------------------------------ *)
(* amountToClaim, claimAndSupportsToJSON                               *)
(* ------------------------------------------------------------------ *)

\* the amounts of claims and supports
Amounts == {20, 30, 100}
\* A claim or support is already counted by the registry (valid at the tip), or
\* still waiting for its activation height.
AmountChoices == Amounts \X {TipHeight, TipHeight + 1}

RECURSIVE SumAmounts(_)
SumAmounts(values) ==
    IF values = << >> THEN 0
    ELSE values[1].nAmount + SumAmounts(SubSeq(values, 2, Len(values)))

\* The registry's effective amount of a claim: the amounts, of the claim and of
\* its supports, that are valid at the tip.
EffectiveAmount(claim, supports) ==
    LET counted(v) == IF v.nValidAtHeight <= TipHeight THEN v.nAmount ELSE 0
    IN  counted(claim)
        + SumAmounts([i \in 1..Len(supports) |-> [nAmount |-> counted(supports[i])]])

\* A CClaimNsupports as getClaimsForName builds it.
CClaimNsupports(c, f) ==
    LET claim == [ claimId |-> 1, outPoint |-> [hash |-> 1, n |-> 0],
                   nHeight |-> TipHeight, nValidAtHeight |-> c[2], nAmount |-> c[1] ]
        supports == [ i \in DOMAIN f |->
                        [ outPoint |-> [hash |-> 1 + i, n |-> 0], nHeight |-> TipHeight,
                          nValidAtHeight |-> f[i][2], nAmount |-> f[i][1] ] ]
    IN  [ claim |-> claim,
          effectiveAmount |-> EffectiveAmount(claim, supports),
          supports |-> supports ]

\* (a total that starts from the effective amount)
amountToClaim_FromEffective(cns) ==
    cns.effectiveAmount + SumAmounts(cns.supports)

\* amountToClaim: claim.nAmount, plus nAmount of every support
amountToClaim(cns) ==
    cns.claim.nAmount + SumAmounts(cns.supports)

\* if (fullAmount > claimNsupports.effectiveAmount)
HasPendingAmount(full, effective) == full > effective

\* (the pending amount as the part not yet counted)
PendingAmount_Difference(full, effective) == full - effective

\* result.pushKV(T_PENDINGAMOUNT, fullAmount)
PendingAmount(full, effective) == full

\* claimToJSON: the fields that come from the claim itself (the name, value and
\* address fields, read from the identifier index and the coin, are left out)
claimToJSON(claim) ==
    [ T_CLAIMID |-> claim.claimId,
      T_N |-> claim.outPoint.n,
      T_HEIGHT |-> claim.nHeight,
      T_VALIDATHEIGHT |-> claim.nValidAtHeight,
      T_AMOUNT |-> claim.nAmount ]

supportToJSON(support) ==
    [ T_N |-> support.outPoint.n,
      T_HEIGHT |-> support.nHeight,
      T_VALIDATHEIGHT |-> support.nValidAtHeight,
      T_AMOUNT |-> support.nAmount ]

\* claimAndSupportsToJSON, given the value of its local fullAmount
claimAndSupportsToJSON(cns, full) ==
    LET pushed == [ T_EFFECTIVEAMOUNT |-> cns.effectiveAmount,
                    T_SUPPORTS |-> [i \in 1..Len(cns.supports) |->
                                        supportToJSON(cns.supports[i])] ]
        pending == IF HasPendingAmount(full, cns.effectiveAmount)
                   THEN [ T_PENDINGAMOUNT |-> PendingAmount(full, cns.effectiveAmount) ]
                   ELSE << >>
    IN  claimToJSON(cns.claim) @@ pushed @@ pending

InitAmount ==
    /\ NoRewind
    /\ pc = "claimAndSupportsToJSON"
    /\ source = << >>
    /\ seqOrder = << >>
    /\ \E c \in AmountChoices :
        \E k \in 0..MaxSupports :
            \E f \in [1..k -> AmountChoices] :
                claimNsupports = CClaimNsupports(c, f)
    /\ fullAmount = -1
    /\ json = << >>
    /\ NoIdQuery
    /\ handler = "getclaimsforname"

ClaimAndSupportsToJSON ==
    /\ pc = "claimAndSupportsToJSON"
    /\ fullAmount' = amountToClaim(claimNsupports)
    /\ json' = claimAndSupportsToJSON(claimNsupports, amountToClaim(claimNsupports))
    /\ pc' = "claimAndSupportsToJSON:returned"
    /\ UNCHANGED << process, signals, historical, targetIndex, activeIndex,
                    currentMemoryUsage, coinsCacheUsage, blockReads, lastRead,
                    disconnects, lastDisconnect, interruptPolls, shutdownPolls,
                    memChecks, merkleHashedAfter, lookups, err, result,
                    seqVars, claimNsupports, idVars >>

NextAmount == ClaimAndSupportsToJSON

SpecAmount == InitAmount /\ [][NextAmount]_vars

(* ------------------------------------------------------------------ *)
(* getclaimbyid, getClaimById, ParseClaimtrieId                        *)
(* ------------------------------------------------------------------ *)

E_NOT_HEX == "must be a hexadecimal string"
E_TOO_LONG == "must be max 20-character hexadecimal string"
E_TOO_SHORT == "should be at least 3 chars"

HexDigits ==
    { "0", "1", "2", "3", "4", "5", "6", "7", "8", "9",
      "a", "b", "c", "d", "e", "f", "A", "B", "C", "D", "E", "F" }

ToLower(c) ==
    CASE c = "A" -> "a" [] c = "B" -> "b" [] c = "C" -> "c"
      [] c = "D" -> "d" [] c = "E" -> "e" [] c = "F" -> "f"
      [] OTHER -> c

\* IsHexNumber: a non-empty string of hexadecimal digits
IsHexNumber(str) ==
    Len(str) > 0 /\ \A i \in 1..Len(str) : str[i] \in HexDigits

\* uint160S on a string of claimIdHexLength hexadecimal digits: SetHex reads the
\* digits in either case, GetHex writes them in lower case.
uint160S(str) == [i \in 1..Len(str) |-> ToLower(str[i])]

\* uint160::IsNull
IsNull(claimId) == \A i \in 1..Len(claimId) : claimId[i] = "0"

\* ParseClaimtrieId: the error it throws, or "none"
ParseClaimtrieId(v) ==
    IF ~v.isStr \/ ~IsHexNumber(v.str) THEN E_NOT_HEX
    ELSE IF Len(v.str) > claimIdHexLength THEN E_TOO_LONG
    ELSE "none"

\* The characters requests are written in: a lower-case digit, an upper-case
\* digit, a character that is no digit.
Alphabet == {"a", "A", "g"}

Pad(p, n) == [i \in 1..n |-> IF i <= Len(p) THEN p[i] ELSE "0"]

PartialStrings == UNION { [1..k -> Alphabet] : k \in 0..MaxPartialLen }

Requests ==
    { [isStr |-> FALSE, str |-> << >>] }
    \cup { [isStr |-> TRUE, str |-> p] : p \in PartialStrings }
    \cup { [isStr |-> TRUE, str |-> Pad(p, claimIdHexLength)] : p \in PartialStrings }
    \cup { [isStr |-> TRUE, str |-> Pad(p, claimIdHexLength + 1)] :
             p \in { q \in PartialStrings : Len(q) <= 1 } }

\* The identifiers of the claims in the index.
IndexedIds ==
    { Pad(<< "a", "a" >>, claimIdHexLength),
      Pad(<< "a", "a", "a" >>, claimIdHexLength),
      Pad(<< "a", "a", "a", "a" >>, claimIdHexLength) }

\* The claim of an identifier: the first of them is the youngest.
ClaimOf(id) ==
    CClaimValue(id, IF id = Pad(<< "a", "a" >>, claimIdHexLength) THEN 100 ELSE 99, FALSE, 0)

\* An entry of pclaimTrie->db: a CLAIM_BY_ID key with its CClaimIndexElement, or
\* an entry of another kind.
IndexEntries ==
    { [key |-> << "CLAIM_BY_ID", id >>, name |-> nm, claim |-> ClaimOf(id)] :
        id \in IndexedIds, nm \in {"x", "y"} }
    \cup { [key |-> << "OTHER", << >> >>, name |-> "", claim |-> << >>] }

\* getClaimById(const uint160&, ...): a null identifier is not looked up; any
\* other costs one db->Read.
getClaimByIdExact(index, claimId) ==
    IF IsNull(claimId)
    THEN [found |-> FALSE, reads |-> 0, element |-> << >>]
    ELSE LET hits == { i \in 1..Len(index) : index[i].key = << "CLAIM_BY_ID", claimId >> }
         IN  IF hits # {} /\ index[CHOOSE i \in hits : TRUE].claim.claimId = claimId
             THEN [found |-> TRUE, reads |-> 1, element |-> index[CHOOSE i \in hits : TRUE]]
             ELSE [found |-> FALSE, reads |-> 1, element |-> << >>]

\* key.second.GetHex().find(partialId) != 0
StartsWith(hex, partialId) ==
    /\ Len(partialId) <= Len(hex)
    /\ \A i \in 1..Len(partialId) : hex[i] = partialId[i]

\* (a loop that does not return at a match: the last match is kept)
RECURSIVE Scan_LastMatch(_, _, _, _)
Scan_LastMatch(index, i, partialId, name) ==
    IF i > Len(index) THEN [found |-> FALSE, element |-> << >>, visited |-> Len(index)]
    ELSE LET rest == Scan_LastMatch(index, i + 1, partialId, name)
         IN  IF rest.found THEN rest
             ELSE IF /\ index[i].key[1] = "CLAIM_BY_ID"
                     /\ StartsWith(index[i].key[2], partialId)
                     /\ (name = "" \/ name = index[i].name)
             THEN [found |-> TRUE, element |-> index[i], visited |-> Len(index)]
             ELSE rest

\* the loop of getClaimById(const std::string&, ...), from the i-th entry on;
\* visited counts the entries the iterator stood on (every CLAIM_BY_ID key has
\* a CClaimIndexElement as its value, so GetValue succeeds)
RECURSIVE Scan(_, _, _, _)
Scan(index, i, partialId, name) ==
    IF i > Len(index) THEN [found |-> FALSE, element |-> << >>, visited |-> Len(index)]
    ELSE IF index[i].key[1] # "CLAIM_BY_ID" THEN Scan(index, i + 1, partialId, name)
    ELSE IF ~StartsWith(index[i].key[2], partialId) THEN Scan(index, i + 1, partialId, name)
    ELSE IF name # "" /\ name # index[i].name THEN Scan(index, i + 1, partialId, name)
    ELSE [found |-> TRUE, element |-> index[i], visited |-> i]

\* getClaimById(const std::string&, ...): an empty string is not looked up; any
\* other starts an iterator over the whole index.
getClaimByIdPartial(index, partialId, name) ==
    IF partialId = << >>
    THEN [found |-> FALSE, iterators |-> 0, visited |-> 0, element |-> << >>]
    ELSE [ found |-> Scan(index, 1, partialId, name).found,
           iterators |-> 1,
           visited |-> Scan(index, 1, partialId, name).visited,
           element |-> Scan(index, 1, partialId, name).element ]

\* trieCache.getClaimsForName(name): the claims the index holds for the name, in
\* bid order, none of them with supports.
getClaimsForName(index, name) ==
    LET ofName(e) == e.key[1] = "CLAIM_BY_ID" /\ e.name = name
        entries == SelectSeq(index, ofName)
    IN  [ name |-> name,
          claimsNsupports |->
              [ i \in 1..Len(entries) |->
                  [ claim |-> entries[i].claim,
                    effectiveAmount |-> entries[i].claim.nAmount,
                    supports |-> << >> ] ],
          nLastTakeoverHeight |-> 99 ]

\* (positions counted from 1)
indexOf_OneBased(s, claimId) ==
    LET at == { i \in 1..Len(s) : s[i].claim.claimId = claimId }
    IN  IF at = {} THEN Len(s) + 1
        ELSE CHOOSE i \in at : \A j \in at : i <= j

\* indexOf: std::distance from begin() to the first element with the
\* identifier (the code asserts there is one)
indexOf(s, claimId) ==
    LET at == { i \in 1..Len(s) : s[i].claim.claimId = claimId }
    IN  IF at = {} THEN Len(s)
        ELSE (CHOOSE i \in at : \A j \in at : i <= j) - 1

\* getclaimsforname without a block hash, from line 430 on: source is
\* csToName.claimsNsupports; json is the array claimObjs
GetClaimsForName ==
    /\ pc = "getclaimsforname"
    /\ \E order \in seqSort(source) :
        /\ seqOrder' = order
        /\ json' = [ i \in 1..Len(source) |->
                       claimAndSupportsToJSON(source[i], amountToClaim(source[i]))
                       @@ [ T_BID |-> i - 1,
                            T_SEQUENCE |-> indexOf(order, source[i].claim.claimId) ] ]
    /\ pc' = "getclaimsforname:returned"
    /\ UNCHANGED << process, signals, historical, targetIndex, activeIndex,
                    currentMemoryUsage, coinsCacheUsage, blockReads, lastRead,
                    disconnects, lastDisconnect, interruptPolls, shutdownPolls,
                    memChecks, merkleHashedAfter, lookups, err, result,
                    source, claimNsupports, fullAmount, idVars >>

NextSeq ==
    \/ SeqSort
    \/ GetClaimsForName

SpecSeq == InitSeq /\ [][NextSeq]_vars

\* getclaimbyid from line 558 on: the objects it may return for the element found
ClaimByIdResults(index, element) ==
    LET csToName == getClaimsForName(index, element.name)
        all == csToName.claimsNsupports
        at == { i \in 1..Len(all) : all[i].claim.claimId = element.claim.claimId }
    IN  IF at = {} THEN { << >> }
        ELSE LET cns == all[CHOOSE i \in at : TRUE]
                 body == claimAndSupportsToJSON(cns, amountToClaim(cns))
             IN  { [T_NORMALIZEDNAME |-> csToName.name] @@ body
                   @@ [ T_LASTTAKEOVERHEIGHT |-> csToName.nLastTakeoverHeight,
                        T_BID |-> IF Len(all) > 1
                                  THEN indexOf(all, element.claim.claimId) ELSE 0,
                        T_SEQUENCE |-> IF Len(all) > 1
                                       THEN indexOf(order, element.claim.claimId) ELSE 0 ] :
                   order \in seqSort(all) }

InitId ==
    /\ NoRewind
    /\ pc = "getclaimbyid"
    /\ source = << >>
    /\ seqOrder = << >>
    /\ claimNsupports = << >>
    /\ fullAmount = -1
    /\ json = << >>
    /\ \E k \in 0..MaxIndexEntries :
        /\ claimIndex \in [1..k -> IndexEntries]
        /\ \A i, j \in 1..k : i # j => claimIndex[i].key # claimIndex[j].key
    /\ request \in Requests
    /\ handler = "getclaimbyid"
    /\ dbReads = 0
    /\ iterators = 0
    /\ scanned = 0
    /\ position = 0
    /\ proofBuilds = 0
    /\ NoMutator
    /\ ret = << >>

\* getclaimbyid
GetClaimById ==
    /\ pc = "getclaimbyid"
    /\ LET parsed == ParseClaimtrieId(request)
           claimId == request.str
           exact == IF Len(claimId) = claimIdHexLength
                    THEN getClaimByIdExact(claimIndex, uint160S(claimId))
                    ELSE [found |-> FALSE, reads |-> 0, element |-> << >>]
           partial == IF exact.found
                      THEN [found |-> FALSE, iterators |-> 0, visited |-> 0,
                            element |-> << >>]
                      ELSE getClaimByIdPartial(claimIndex, claimId, "")
       IN  IF parsed # "none"
           THEN /\ Throw(parsed)
                /\ UNCHANGED << dbReads, iterators, scanned, ret >>
           ELSE IF Len(claimId) < 3
           THEN /\ Throw(E_TOO_SHORT)
                /\ UNCHANGED << dbReads, iterators, scanned, ret >>
           ELSE /\ dbReads' = exact.reads
                /\ iterators' = partial.iterators
                /\ scanned' = partial.visited
                /\ ret' \in IF exact.found
                            THEN ClaimByIdResults(claimIndex, exact.element)
                            ELSE IF partial.found
                            THEN ClaimByIdResults(claimIndex, partial.element)
                            ELSE { << >> }
                /\ pc' = "getclaimbyid:returned"
                /\ err' = err
    /\ UNCHANGED << process, signals, historical, targetIndex, activeIndex,
                    currentMemoryUsage, coinsCacheUsage, blockReads, lastRead,
                    disconnects, lastDisconnect, interruptPolls, shutdownPolls,
                    memChecks, merkleHashedAfter, lookups, result,
                    seqVars, amountVars, claimIndex, request, handler,
                    position, proofBuilds, cs_main, connecting, racyRead >>

NextId == GetClaimById

SpecId == InitId /\ [][NextId]_vars

(* ------------------------------------------------------------------ *)
(* The lookups of a query with an optional block hash                  *)
(* ------------------------------------------------------------------ *)

\* the name the request asks for
QueriedName == "x"

\* trieCache.getClaimsForName(name).claimsNsupports: the claims of the name at
\* the tip while nothing is disconnected, the claims it had at the target block
\* (source) once blocks are
ViewClaims ==
    IF disconnects = << >>
    THEN getClaimsForName(claimIndex, QueriedName).claimsNsupports
    ELSE source

\* claimToJSON, lines 199-201: getClaimById(claim.claimId, targetName) reads
\* pclaimTrie->db, the identifier index of the tip; T_NAME is pushed if it finds
\* the identifier
LiveName(index, claim) ==
    IF getClaimByIdExact(index, claim.claimId).found
    THEN [ T_NAME |-> getClaimByIdExact(index, claim.claimId).element.name ]
    ELSE << >>

\* The handler's lookups in trieCache / coinsCache and its return value
\* (getclaimsforname from line 424 on): json is the array claimObjs, dbReads
\* the reads of pclaimTrie->db made for it.
Lookup ==
    /\ pc = "lookup"
    /\ handler = "getclaimsforname"
    /\ lookups' = lookups + 1
    /\ result' = "view"
    /\ pc' = "done"
    /\ \E order \in seqSort(ViewClaims) :
        /\ seqOrder' = order
        /\ json' = [ i \in 1..Len(ViewClaims) |->
                       LiveName(claimIndex, ViewClaims[i].claim)
                       @@ claimAndSupportsToJSON(ViewClaims[i], amountToClaim(ViewClaims[i]))
                       @@ [ T_BID |-> i - 1,
                            T_SEQUENCE |-> indexOf(order, ViewClaims[i].claim.claimId) ] ]
    /\ dbReads' = Len(ViewClaims)
    /\ UNCHANGED << process, signals, historical, targetIndex, activeIndex,
                    currentMemoryUsage, coinsCacheUsage, blockReads, lastRead,
                    disconnects, lastDisconnect, interruptPolls, shutdownPolls,
                    memChecks, merkleHashedAfter, err,
                    source, claimNsupports, fullAmount,
                    claimIndex, request, iterators, scanned, handler, position,
                    proofBuilds, cs_main, connecting, racyRead, ret >>

Next ==
    \/ InterruptThread
    \/ StartShutdown
    \/ QueryAtTip
    \/ QueryAtBlock
    \/ RollBackToEnter
    \/ LoopTest
    \/ InterruptionPoint
    \/ ReadBlock
    \/ MemCheck
    \/ ShutdownPoll
    \/ DisconnectBlock
    \/ GetMerkleHash
    \/ Lookup
    \/ EndQuery

Spec == Init /\ [][Next]_vars

\* A claim of the queried name as the registry returns it, and its entry in the
\* identifier index.
ClaimOfName(id) ==
    [ claim |-> ClaimOf(id), effectiveAmount |-> ClaimOf(id).nAmount, supports |-> << >> ]

IndexEntryOf(id) ==
    [ key |-> << "CLAIM_BY_ID", id >>, name |-> QueriedName, claim |-> ClaimOf(id) ]

\* The claims the name had at the target block, and the identifier index of the
\* tip: claims may have been added to the name or removed from it in between.
HistoricalClaims ==
    { << >>,
      << ClaimOfName(Pad(<< "a", "a" >>, claimIdHexLength)) >>,
      << ClaimOfName(Pad(<< "a", "a" >>, claimIdHexLength)),
         ClaimOfName(Pad(<< "a", "a", "a" >>, claimIdHexLength)) >> }

TipIndexes ==
    { << >>,
      << IndexEntryOf(Pad(<< "a", "a" >>, claimIdHexLength)) >>,
      << IndexEntryOf(Pad(<< "a", "a" >>, claimIdHexLength)),
         IndexEntryOf(Pad(<< "a", "a", "a" >>, claimIdHexLength)) >> }

InitView ==
    /\ chainTip = TipHeight
    /\ pcoinsTipUsage = 0
    /\ nCoinCacheUsage = MaxBudget
    /\ interruptRequested = FALSE
    /\ shutdownRequested = FALSE
    /\ QueryLocalsInit
    /\ source \in HistoricalClaims
    /\ seqOrder = << >>
    /\ claimNsupports = << >>
    /\ fullAmount = -1
    /\ json = << >>
    /\ claimIndex \in TipIndexes
    /\ request = << >>
    /\ dbReads = 0
    /\ iterators = 0
    /\ scanned = 0
    /\ handler = "getclaimsforname"
    /\ position = 0
    /\ proofBuilds = 0
    /\ NoMutator
    /\ ret = << >>

NextView ==
    \/ QueryAtTip
    \/ QueryAtBlock
    \/ RollBackToEnter
    \/ LoopTest
    \/ InterruptionPoint
    \/ ReadBlock
    \/ MemCheck
    \/ ShutdownPoll
    \/ DisconnectBlock
    \/ GetMerkleHash
    \/ Lookup
    \/ EndQuery

SpecView == InitView /\ [][NextView]_vars

(* ------------------------------------------------------------------ *)
(* getvalueforname, getnameproof: a block hash, then a claim identifier *)
(* ------------------------------------------------------------------ *)

E_PROOF == "Failed to generate proof"

IdHandlers == {"getvalueforname", "getnameproof"}

\* The third parameter of a request: none (<< >>), or a value that is no string,
\* no hexadecimal string, one or three hexadecimal digits, an identifier in
\* full, one digit too many.
IdArguments ==
    { << >>,
      [isStr |-> FALSE, str |-> << >>],
      [isStr |-> TRUE, str |-> << "g", "g", "g" >>],
      [isStr |-> TRUE, str |-> << "a" >>],
      [isStr |-> TRUE, str |-> << "a", "a", "a" >>],
      [isStr |-> TRUE, str |-> Pad(<< "a", "a" >>, claimIdHexLength)],
      [isStr |-> TRUE, str |-> Pad(<< "a" >>, claimIdHexLength + 1)] }

InitById ==
    /\ chainTip = TipHeight
    /\ pcoinsTipUsage = 0
    /\ nCoinCacheUsage = MaxBudget
    /\ interruptRequested = FALSE
    /\ shutdownRequested = FALSE
    /\ QueryLocalsInit
    /\ source = << >>
    /\ seqOrder = << >>
    /\ claimNsupports = << >>
    /\ fullAmount = -1
    /\ json = << >>
    /\ claimIndex = << >>
    /\ request \in IdArguments
    /\ dbReads = 0
    /\ iterators = 0
    /\ scanned = 0
    /\ position = 0
    /\ proofBuilds = 0
    /\ NoMutator
    /\ handler \in IdHandlers
    /\ ret = << >>

\* if (request.params.size() > 2) ParseClaimtrieId(request.params[2], ...):
\* the statement after the optional RollBackTo
ParseClaimId ==
    /\ UNCHANGED << seqVars, amountVars, idVars >>
    /\ pc = "lookup"
    /\ handler \in IdHandlers
    /\ LET parsed == IF request = << >> THEN "none" ELSE ParseClaimtrieId(request)
       IN  IF parsed # "none"
           THEN Throw(parsed)
           ELSE /\ pc' = "find"
                /\ err' = err
    /\ UNCHANGED << process, signals, historical, targetIndex, activeIndex,
                    currentMemoryUsage, coinsCacheUsage, blockReads, lastRead,
                    disconnects, lastDisconnect, interruptPolls, shutdownPolls,
                    memChecks, merkleHashedAfter, lookups, result >>

\* getvalueforname: trieCache.getClaimsForName(name), the claim picked by the
\* identifier, the result object (empty when there is no such claim);
\* getnameproof: trieCache.getProofForName(name, proof, comp), which may fail.
LookupById ==
    /\ UNCHANGED << seqVars, amountVars, idVars >>
    /\ pc = "find"
    /\ lookups' = lookups + 1
    /\ \/ /\ result' = "view"
          /\ pc' = "done"
          /\ err' = err
       \/ /\ handler = "getnameproof"
          /\ result' = result
          /\ Throw(E_PROOF)
    /\ UNCHANGED << process, signals, historical, targetIndex, activeIndex,
                    currentMemoryUsage, coinsCacheUsage, blockReads, lastRead,
                    disconnects, lastDisconnect, interruptPolls, shutdownPolls,
                    memChecks, merkleHashedAfter >>

NextById ==
    \/ QueryAtTip
    \/ QueryAtBlock
    \/ RollBackToEnter
    \/ LoopTest
    \/ InterruptionPoint
    \/ ReadBlock
    \/ MemCheck
    \/ ShutdownPoll
    \/ DisconnectBlock
    \/ GetMerkleHash
    \/ ParseClaimId
    \/ LookupById
    \/ EndQuery

SpecById == InitById /\ [][NextById]_vars

(* ------------------------------------------------------------------ *)
(* getclaimproofbybid, getclaimproofbyseq                              *)
(* ------------------------------------------------------------------ *)

E_NEGATIVE == "should not be a negative value"

ProofHandlers == {"getclaimproofbybid", "getclaimproofbyseq"}

\* return {UniValue::VARR}
EmptyArray == [ type |-> "VARR" ]

\* if (bid): only a bid other than 0 is resolved through the claims of the name
BidChecked(bid) == bid # 0

\* uint32_t(bid) >= csToName.claimsNsupports.size()
OutOfRange(i, size) == i >= size

\* getProofForName(name, proof, comp) and proofToJSON: the proof of the claim
\* comp picks ("default" without a comp: the claim that controls the name)
proofToJSON(claimId) == [ T_PROOF_OF |-> claimId ]

InitProof ==
    /\ NoRewind
    /\ pc = "getclaimproof"
    /\ \E k \in 0..MaxClaims :
        \E f \in [1..k -> Heights \X {FALSE} \X OutputIndexes] :
            source = ClaimList(k, f)
    /\ seqOrder = << >>
    /\ claimNsupports = << >>
    /\ fullAmount = -1
    /\ json = << >>
    /\ claimIndex = << >>
    /\ request = << >>
    /\ dbReads = 0
    /\ iterators = 0
    /\ scanned = 0
    /\ handler \in ProofHandlers
    /\ position \in -1..(MaxClaims + 1)
    /\ proofBuilds = 0
    /\ NoMutator
    /\ ret = << >>

\* getProofForName fails or gives the proof
BuildProof(claimId) ==
    /\ proofBuilds' = proofBuilds + 1
    /\ \/ /\ ret' = proofToJSON(claimId)
          /\ pc' = "getclaimproof:returned"
          /\ err' = err
       \/ /\ ret' = ret
          /\ Throw(E_PROOF)

\* getclaimproofbybid without a block hash; source is what getClaimsForName gives
GetClaimProofByBid ==
    /\ pc = "getclaimproof"
    /\ handler = "getclaimproofbybid"
    /\ IF position < 0
       THEN /\ Throw(E_NEGATIVE)
            /\ UNCHANGED << proofBuilds, ret >>
       ELSE IF BidChecked(position) /\ OutOfRange(position, Len(source))
       THEN /\ ret' = EmptyArray
            /\ pc' = "getclaimproof:returned"
            /\ UNCHANGED << proofBuilds, err >>
       ELSE BuildProof(IF BidChecked(position)
                       THEN source[position + 1].claim.claimId ELSE "default")
    /\ UNCHANGED << process, signals, historical, targetIndex, activeIndex,
                    currentMemoryUsage, coinsCacheUsage, blockReads, lastRead,
                    disconnects, lastDisconnect, interruptPolls, shutdownPolls,
                    memChecks, merkleHashedAfter, lookups, result,
                    seqVars, amountVars, claimIndex, request, dbReads,
                    iterators, scanned, handler, position, cs_main,
                    connecting, racyRead >>

\* getclaimproofbyseq without a block hash
GetClaimProofBySeq ==
    /\ pc = "getclaimproof"
    /\ handler = "getclaimproofbyseq"
    /\ IF position < 0
       THEN /\ Throw(E_NEGATIVE)
            /\ UNCHANGED << proofBuilds, ret >>
       ELSE IF OutOfRange(position, Len(source))
       THEN /\ ret' = EmptyArray
            /\ pc' = "getclaimproof:returned"
            /\ UNCHANGED << proofBuilds, err >>
       ELSE \E order \in (IF Len(source) = 1 THEN {source} ELSE seqSort(source)) :
                BuildProof(order[position + 1].claim.claimId)
    /\ UNCHANGED << process, signals, historical, targetIndex, activeIndex,
                    currentMemoryUsage, coinsCacheUsage, blockReads, lastRead,
                    disconnects, lastDisconnect, interruptPolls, shutdownPolls,
                    memChecks, merkleHashedAfter, lookups, result,
                    seqVars, amountVars, claimIndex, request, dbReads,
                    iterators, scanned, handler, position, cs_main,
                    connecting, racyRead >>

NextProof ==
    \/ GetClaimProofByBid
    \/ GetClaimProofBySeq

SpecProof == InitProof /\ [][NextProof]_vars

(* ------------------------------------------------------------------ *)
(* cs_main: the handlers and the chain mutator                         *)
(* ------------------------------------------------------------------ *)

E_INTERNAL == "RPC_INTERNAL_ERROR"

\* the commands table (getclaimtrie only throws)
Handlers ==
    { "getclaimsintrie", "getnamesintrie", "getvalueforname", "getclaimsforname",
      "gettotalclaimednames", "gettotalclaims", "gettotalvalueofclaims",
      "getclaimsfortx", "getnameproof", "getclaimproofbybid",
      "getclaimproofbyseq", "getclaimbyid", "getclaimbybid", "getclaimbyseq",
      "getchangesinblock", "checknormalization" }

\* the handler has a LOCK(cs_main) before its first use of chainActive,
\* pcoinsTip or pclaimTrie
LocksCsMain(h) == h # "checknormalization"

\* the scope the LOCK is declared in: the handler's body, or an inner block
\* that ends before the result is built
LockScope(h) == IF h = "getchangesinblock" THEN "block" ELSE "function"

\* handlers with a throw after their first read of shared state
CanFail(h) ==
    h \notin { "gettotalclaimednames", "gettotalclaims", "gettotalvalueofclaims",
               "getclaimsfortx", "checknormalization" }

\* the lock after the query's LOCK went out of scope
Released(holder) == IF holder = "query" THEN "none" ELSE holder

InitLock ==
    /\ NoRewind
    /\ pc = "idle"
    /\ source = << >>
    /\ seqOrder = << >>
    /\ claimNsupports = << >>
    /\ fullAmount = -1
    /\ json = << >>
    /\ NoIdQuery
    /\ handler \in Handlers

\* the handler up to its first use of shared state: LOCK(cs_main) blocks while
\* another thread holds the lock
BeginQuery ==
    /\ pc = "idle"
    /\ IF LocksCsMain(handler)
       THEN cs_main = "none" /\ cs_main' = "query"
       ELSE cs_main' = cs_main
    /\ pc' = "read"
    /\ UNCHANGED << process, signals, historical, targetIndex, activeIndex,
                    currentMemoryUsage, coinsCacheUsage, blockReads, lastRead,
                    disconnects, lastDisconnect, interruptPolls, shutdownPolls,
                    memChecks, merkleHashedAfter, lookups, err, result,
                    seqVars, amountVars, claimIndex, request, dbReads,
                    iterators, scanned, handler, position, proofBuilds,
                    connecting, racyRead, ret >>

\* the handler's reads of chainActive, pcoinsTip and pclaimTrie (the caches
\* constructed on them included); an inner LOCK block ends after them
ReadState ==
    /\ pc = "read"
    /\ lookups' = lookups + 1
    /\ racyRead' = (racyRead \/ connecting)
    /\ \/ /\ pc' = "build"
          /\ err' = err
          /\ cs_main' = IF LockScope(handler) = "block" THEN Released(cs_main)
                        ELSE cs_main
       \/ /\ CanFail(handler)
          /\ Throw(E_INTERNAL)
          /\ cs_main' = Released(cs_main)
    /\ UNCHANGED << process, signals, historical, targetIndex, activeIndex,
                    currentMemoryUsage, coinsCacheUsage, blockReads, lastRead,
                    disconnects, lastDisconnect, interruptPolls, shutdownPolls,
                    memChecks, merkleHashedAfter, result,
                    seqVars, amountVars, claimIndex, request, dbReads,
                    iterators, scanned, handler, position, proofBuilds,
                    connecting, ret >>

\* the result is built and returned; the handler's scope ends
BuildResult ==
    /\ pc = "build"
    /\ result' = "view"
    /\ pc' = "done"
    /\ cs_main' = Released(cs_main)
    /\ UNCHANGED << process, signals, historical, targetIndex, activeIndex,
                    currentMemoryUsage, coinsCacheUsage, blockReads, lastRead,
                    disconnects, lastDisconnect, interruptPolls, shutdownPolls,
                    memChecks, merkleHashedAfter, lookups, err,
                    seqVars, amountVars, claimIndex, request, dbReads,
                    iterators, scanned, handler, position, proofBuilds,
                    connecting, racyRead, ret >>

\* The chain mutator takes cs_main and starts to connect or disconnect a block:
\* chain, output set and registry are in between two blocks.
MutatorBegin ==
    /\ cs_main = "none"
    /\ ~connecting
    /\ cs_main' = "mutator"
    /\ connecting' = TRUE
    /\ UNCHANGED << rewindVars, seqVars, amountVars, claimIndex, request, dbReads,
                    iterators, scanned, handler, position, proofBuilds,
                    racyRead, ret >>

\* the block is connected or disconnected; the mutator releases cs_main
MutatorEnd ==
    /\ connecting
    /\ connecting' = FALSE
    /\ cs_main' = "none"
    /\ UNCHANGED << rewindVars, seqVars, amountVars, claimIndex, request, dbReads,
                    iterators, scanned, handler, position, proofBuilds,
                    racyRead, ret >>

NextLock ==
    \/ BeginQuery
    \/ ReadState
    \/ BuildResult
    \/ EndQuery
    \/ MutatorBegin
    \/ MutatorEnd

SpecLock == InitLock /\ [][NextLock]_vars

(* ------------------------------------------------------------------ *)
(* RollBackTo: properties (checked under Spec)                         *)
(* ------------------------------------------------------------------ *)

Depth == chainTip - targetIndex
InRollBackOrAfter ==
    historical /\ pc \notin {"idle", "RollBackTo"} /\ err # E_BLOCK_NOT_FOUND
Cancelled == {E_INTERRUPTED, E_SHUTDOWN}

\* C1: a rewind of more than 500 blocks fails with "Block is too deep" before
\* any block read or disconnect step; a rewind of 500 blocks or fewer is never
\* rejected by the depth check.
C1_DepthBound ==
    InRollBackOrAfter =>
        IF Depth > MAX_RPC_BLOCK_DECREMENTS
        THEN /\ pc = "failed"
             /\ err = E_TOO_DEEP
             /\ disconnects = << >>
             /\ blockReads = << >>
        ELSE err # E_TOO_DEEP

\* a rewind of 501 blocks was rejected
C1_Witness ==
    /\ pc = "failed"
    /\ err = E_TOO_DEEP
    /\ Depth = MAX_RPC_BLOCK_DECREMENTS + 1

\* C2: a RollBackTo that returned has called DisconnectBlock on the heights
\* tip, tip-1, ..., target+1, once each and in that order, and on nothing else
\* (on nothing at all when the target is the tip).
C2_DisconnectsTipDownToTarget ==
    (historical /\ pc \in {"lookup", "done"}) =>
        /\ disconnects = [i \in 1..Depth |-> chainTip - i + 1]
        /\ activeIndex = targetIndex

\* a rewind of exactly 500 blocks returned
C2_Witness ==
    /\ historical
    /\ pc = "done"
    /\ Len(disconnects) = MAX_RPC_BLOCK_DECREMENTS

\* C3: both cancellation signals are polled in every iteration before its
\* DisconnectBlock call; a poll that finds its signal set fails the rewind
\* without that call; the rewind is cancelled at a poll and nowhere else.
C3_CancellationPolledBeforeEachStep ==
    /\ [](pc = "DisconnectBlock" =>
            /\ interruptPolls = Len(disconnects) + 1
            /\ shutdownPolls = Len(disconnects) + 1)
    /\ [][ ( /\ \/ pc = "interruption_point" /\ interruptRequested
                \/ pc = "ShutdownRequested" /\ shutdownRequested
             /\ pc' # pc )
           => /\ pc' = "failed"
              /\ err' \in Cancelled
              /\ disconnects' = disconnects ]_vars
    /\ [][ (err' \in Cancelled /\ err \notin Cancelled)
           => /\ pc \in {"interruption_point", "ShutdownRequested"}
              /\ disconnects' = disconnects ]_vars
    /\ [][ (pc = "failed" /\ err \in Cancelled)
           => Len(disconnects') <= Len(disconnects) ]_vars

\* a shutdown request stopped a rewind that had already disconnected a block
C3_Witness ==
    /\ pc = "failed"
    /\ err = E_SHUTDOWN
    /\ Len(disconnects) >= 1
    /\ chainTip - Len(disconnects) > targetIndex

\* C4: every DisconnectBlock call is preceded, in its iteration, by the
\* comparison of coinsCache's usage plus the tip usage sampled at the start
\* against nCoinCacheUsage, and is reached only with the sum within the
\* budget; the rewind that finds the sum above it fails with "Out of memory".
C4_MemoryCheckedBeforeEachStep ==
    /\ pc \in {"ShutdownRequested", "DisconnectBlock"} =>
        /\ memChecks = Len(disconnects) + 1
        /\ currentMemoryUsage = pcoinsTipUsage
        /\ coinsCacheUsage + pcoinsTipUsage <= nCoinCacheUsage
    /\ err = E_OOM =>
        /\ pc = "failed"
        /\ memChecks = Len(disconnects) + 1
        /\ coinsCacheUsage + pcoinsTipUsage > nCoinCacheUsage

\* the cache of a rewind grew over the budget after a disconnect step
C4_Witness ==
    /\ err = E_OOM
    /\ Len(disconnects) >= 1
    /\ coinsCacheUsage >= 1

\* C5: every rewind failure leaves the query failed: nothing is read or
\* disconnected afterwards, getMerkleHash is not called, no lookup reads the
\* view and no result is returned.
C5_FailureAbortsQuery ==
    /\ []( ( \/ lastRead = "fail"
             \/ lastDisconnect \notin {"none", "DISCONNECT_OK"}
             \/ err # "none" )
           => /\ pc = "failed"
              /\ err # "none"
              /\ merkleHashedAfter = -1
              /\ lookups = 0
              /\ result = "none" )
    /\ [][ (pc = "failed" /\ pc' # "idle") => UNCHANGED locals ]_vars
    /\ [][ pc = "failed" => pc' \in {"failed", "idle"} ]_vars

\* a DisconnectBlock call failed after an earlier one had succeeded
C5_Witness ==
    /\ pc = "failed"
    /\ err = E_DISCONNECT
    /\ lastDisconnect = "DISCONNECT_FAILED"
    /\ Len(disconnects) >= 2

\* C6: a RollBackTo that returned has called getMerkleHash after its last
\* DisconnectBlock call (also when it made none), before any lookup of the
\* query; a failed rewind has not called it.
C6_MerkleHashFinalizesRewind ==
    /\ (historical /\ pc \in {"lookup", "done"}) =>
            merkleHashedAfter = Len(disconnects)
    /\ (historical /\ lookups > 0) => merkleHashedAfter # -1
    /\ pc = "failed" => merkleHashedAfter = -1

\* a rewind of at least one block returned and the query looked up its view
C6_Witness ==
    /\ historical
    /\ pc = "done"
    /\ lookups > 0
    /\ Len(disconnects) >= 1
    /\ merkleHashedAfter = Len(disconnects)

(* ------------------------------------------------------------------ *)
(* seqSort: properties (checked under SpecSeq)                         *)
(* ------------------------------------------------------------------ *)

Id(s) == [i \in 1..Len(s) |-> s[i].claim.claimId]

\* C7 as stated: the result of seqSort is ordered by effective height
\* (nValidAtHeight) ascending, ties broken by output index ascending.
C7_SortedByValidAtHeight ==
    pc = "seqSort:returned" =>
        \A i, j \in 1..Len(seqOrder) :
            i < j =>
                \/ seqOrder[i].claim.nValidAtHeight < seqOrder[j].claim.nValidAtHeight
                \/ /\ seqOrder[i].claim.nValidAtHeight = seqOrder[j].claim.nValidAtHeight
                   /\ seqOrder[i].claim.outPoint.n <= seqOrder[j].claim.outPoint.n

\* C7, amended: the result of seqSort is ordered by the height the claim was
\* registered at (nHeight) ascending, ties broken by output index ascending.
C7_SortedByHeight ==
    pc = "seqSort:returned" =>
        \A i, j \in 1..Len(seqOrder) :
            i < j =>
                \/ seqOrder[i].claim.nHeight < seqOrder[j].claim.nHeight
                \/ /\ seqOrder[i].claim.nHeight = seqOrder[j].claim.nHeight
                   /\ seqOrder[i].claim.outPoint.n <= seqOrder[j].claim.outPoint.n

\* bid order [B, C, A] with A(height 99), B(height 100, n 0), C(height 100, n 2)
\* came out as [A, B, C]
C7_Witness ==
    /\ pc = "seqSort:returned"
    /\ Len(source) = 3
    /\ source[1].claim.nHeight = 100 /\ source[1].claim.outPoint.n = 0
    /\ source[2].claim.nHeight = 100 /\ source[2].claim.outPoint.n = 2
    /\ source[3].claim.nHeight = 99
    /\ Id(seqOrder) = << 3, 1, 2 >>

(* ------------------------------------------------------------------ *)
(* Amounts: properties (checked under SpecAmount)                      *)
(* ------------------------------------------------------------------ *)

Returned == pc = "claimAndSupportsToJSON:returned"
HasKey(object, key) == key \in DOMAIN object
SupportsTotal == SumAmounts(claimNsupports.supports)

\* C8 as stated: the pending amount is in the record iff the total exceeds the
\* effective amount, and is then the total minus the effective amount.
C8_PendingIsDifference ==
    Returned =>
        /\ HasKey(json, "T_PENDINGAMOUNT") <=> fullAmount > json.T_EFFECTIVEAMOUNT
        /\ HasKey(json, "T_PENDINGAMOUNT") =>
                json.T_PENDINGAMOUNT = fullAmount - json.T_EFFECTIVEAMOUNT

\* C8, amended: the pending amount is in the record iff the total exceeds the
\* effective amount, and is then the total amount itself (the claim's amount
\* plus the amounts of all its supports).
C8_PendingIsTotal ==
    Returned =>
        /\ json.T_EFFECTIVEAMOUNT = claimNsupports.effectiveAmount
        /\ HasKey(json, "T_PENDINGAMOUNT") <=>
                claimNsupports.claim.nAmount + SupportsTotal
                    > claimNsupports.effectiveAmount
        /\ HasKey(json, "T_PENDINGAMOUNT") =>
                json.T_PENDINGAMOUNT = claimNsupports.claim.nAmount + SupportsTotal

\* a claim of effective amount 100 with the supports 30 and 20, not yet counted
C8_Witness ==
    /\ Returned
    /\ claimNsupports.effectiveAmount = 100
    /\ Len(claimNsupports.supports) = 2
    /\ claimNsupports.supports[1].nAmount = 30
    /\ claimNsupports.supports[2].nAmount = 20
    /\ HasKey(json, "T_PENDINGAMOUNT")
    /\ json.T_PENDINGAMOUNT = 150

\* C9 as stated: the total is the effective amount plus the amounts of all
\* supports of the claim, and so is never below the effective amount.
C9_TotalFromEffective ==
    Returned =>
        /\ fullAmount = claimNsupports.effectiveAmount + SupportsTotal
        /\ fullAmount >= claimNsupports.effectiveAmount

\* C9, amended: the total is the claim's own amount plus the amounts of all
\* supports of the claim, and so is never below the claim's own amount; nor is
\* it below an effective amount that counts only amounts of the claim and of
\* its supports.
C9_TotalFromClaimAmount ==
    Returned =>
        /\ fullAmount = claimNsupports.claim.nAmount + SupportsTotal
        /\ fullAmount >= claimNsupports.claim.nAmount
        /\ fullAmount >= claimNsupports.effectiveAmount

\* a total over a claim whose effective amount already counts one support
C9_Witness ==
    /\ Returned
    /\ Len(claimNsupports.supports) = 2
    /\ claimNsupports.effectiveAmount > claimNsupports.claim.nAmount
    /\ fullAmount > claimNsupports.effectiveAmount

(* ------------------------------------------------------------------ *)
(* getclaimbyid: properties (checked under SpecId)                     *)
(* ------------------------------------------------------------------ *)

\* the request is an identifier of 40 hexadecimal digits, not all of them zero
ValidFullId ==
    /\ request.isStr
    /\ Len(request.str) = claimIdHexLength
    /\ IsHexNumber(request.str)
    /\ ~IsNull(uint160S(request.str))

Indexed(claimId) ==
    \E i \in 1..Len(claimIndex) : claimIndex[i].key = << "CLAIM_BY_ID", claimId >>

\* C10: getclaimbyid resolves a valid identifier of 40 hexadecimal digits with
\* one point lookup (db->Read) and starts no iterator over the index, whether
\* or not the identifier is in the index.
C10_FullIdNeverScans ==
    (pc = "getclaimbyid:returned" /\ ValidFullId) =>
        /\ dbReads = 1
        /\ iterators = 0

\* the entries of the index whose identifier, in hex, starts with the request
Matches ==
    { i \in 1..Len(claimIndex) :
        /\ claimIndex[i].key[1] = "CLAIM_BY_ID"
        /\ StartsWith(claimIndex[i].key[2], request.str) }

FirstMatch == CHOOSE i \in Matches : \A j \in Matches : i <= j

\* C11: a scan of getclaimbyid returns the name and the claim of the first
\* entry, in the iterator's order, whose identifier starts with the prefix, and
\* moves the iterator no further than this entry; matches under other names
\* further on raise no error; without a match the result is empty (not found).
C11_FirstMatchWins ==
    (pc = "getclaimbyid:returned" /\ iterators = 1) =>
        /\ err = "none"
        /\ IF Matches = {}
           THEN ret = << >> /\ scanned = Len(claimIndex)
           ELSE /\ scanned = FirstMatch
                /\ ret # << >>
                /\ ret.T_CLAIMID = claimIndex[FirstMatch].claim.claimId
                /\ ret.T_NORMALIZEDNAME = claimIndex[FirstMatch].name

\* a prefix of 3 characters that two entries under different names match
C11_Witness ==
    /\ pc = "getclaimbyid:returned"
    /\ iterators = 1
    /\ Len(request.str) = 3
    /\ \E i, j \in Matches : i < j /\ claimIndex[i].name # claimIndex[j].name
    /\ scanned = FirstMatch
    /\ scanned < Len(claimIndex)
    /\ ret.T_NORMALIZEDNAME = claimIndex[FirstMatch].name

(* ------------------------------------------------------------------ *)
(* Identifier validation: properties (checked under SpecById)          *)
(* ------------------------------------------------------------------ *)

\* the request's identifier is no hexadecimal string, longer than
\* claimIdHexLength, or shorter than 3 characters
InvalidId ==
    /\ request # << >>
    /\ \/ ~request.isStr
       \/ ~IsHexNumber(request.str)
       \/ Len(request.str) > claimIdHexLength
       \/ Len(request.str) < 3

\* C12: a query with an invalid identifier is rejected before any state access:
\* while it runs it has read no block, disconnected none, finalized no rewound
\* view and looked nothing up, and it never returns a result.
C12_InvalidIdRejectedFirst ==
    (InvalidId /\ pc # "idle") =>
        /\ blockReads = << >>
        /\ disconnects = << >>
        /\ merkleHashedAfter = -1
        /\ lookups = 0
        /\ pc # "done"

(* ------------------------------------------------------------------ *)
(* Proof selection: properties (checked under SpecProof)               *)
(* ------------------------------------------------------------------ *)

ProofQueryEnded == pc \in {"getclaimproof:returned", "failed"}

\* C13: a proof query by bid or by seq with a position i >= k, k the number of
\* claims of the name, returns the empty result, without a getProofForName call
\* and without an error.
C13_OutOfRangeIsEmpty ==
    (ProofQueryEnded /\ position >= 0 /\ position >= Len(source)) =>
        /\ pc = "getclaimproof:returned"
        /\ ret = EmptyArray
        /\ proofBuilds = 0

(* ------------------------------------------------------------------ *)
(* Orders as permutations: properties (checked under SpecSeq)          *)
(* ------------------------------------------------------------------ *)

SeqReturned == pc \in {"seqSort:returned", "getclaimsforname:returned"}

\* t holds the elements of s, each exactly as often
IsPermutationOf(t, s) ==
    /\ Len(t) = Len(s)
    /\ \A i \in 1..Len(s) :
        Cardinality({ j \in 1..Len(t) : t[j] = s[i] })
            = Cardinality({ j \in 1..Len(s) : s[j] = s[i] })

\* the positions 0 .. k-1, each once
CoversPositions(indexes, k) ==
    /\ Len(indexes) = k
    /\ \A p \in 0..(k - 1) : Cardinality({ i \in 1..k : indexes[i] = p }) = 1

\* order[p].identifier == id, p a position counted from 0
HasIdAt(order, p, id) ==
    /\ p \in 0..(Len(order) - 1)
    /\ order[p + 1].claim.claimId = id

\* C14: the sequence order is a permutation of the bid order; the bid and the
\* sequence indexes getclaimsforname reports each cover 0 .. k-1 once; in
\* either order the element at indexOf(order, id) has the identifier id.
C14_OrdersArePermutations ==
    SeqReturned =>
        /\ IsPermutationOf(seqOrder, source)
        /\ \A i \in 1..Len(source) :
            /\ HasIdAt(source, indexOf(source, source[i].claim.claimId),
                       source[i].claim.claimId)
            /\ HasIdAt(seqOrder, indexOf(seqOrder, source[i].claim.claimId),
                       source[i].claim.claimId)
        /\ pc = "getclaimsforname:returned" =>
            /\ CoversPositions([i \in 1..Len(json) |-> json[i].T_BID], Len(source))
            /\ CoversPositions([i \in 1..Len(json) |-> json[i].T_SEQUENCE], Len(source))

\* getclaimsforname on three claims whose sequence order is not their bid order
C14_Witness ==
    /\ pc = "getclaimsforname:returned"
    /\ Len(source) = 3
    /\ Id(seqOrder) # Id(source)
    /\ json[1].T_SEQUENCE # json[1].T_BID

(* ------------------------------------------------------------------ *)
(* cs_main: properties (checked under SpecLock)                        *)
(* ------------------------------------------------------------------ *)

\* C15: every handler holds cs_main from before its first read of shared state
\* until its result is complete, and so reads no shared state while the chain
\* mutator is in the middle of a block.
C15_QueriesHoldCsMain ==
    /\ pc \in {"read", "build"} => cs_main = "query"
    /\ ~racyRead

(* ------------------------------------------------------------------ *)
(* The rewound view: properties (checked under SpecView)               *)
(* ------------------------------------------------------------------ *)

\* C16: the result of a historical query is read from the rewound view only:
\* it reports the claims of the view, each with the name it has in the view,
\* whatever the identifier index of the tip holds.
C16_HistoricalReadsViewOnly ==
    (historical /\ pc = "done") =>
        /\ Len(json) = Len(ViewClaims)
        /\ \A i \in 1..Len(json) :
            /\ json[i].T_CLAIMID = ViewClaims[i].claim.claimId
            /\ HasKey(json[i], "T_NAME")
            /\ json[i].T_NAME = QueriedName

(* ------------------------------------------------------------------ *)
(* Sequence order as a function of the claim set (under SpecSeq)       *)
(* ------------------------------------------------------------------ *)

\* the claims of source in another bid order
Reordered(p) == [i \in 1..Len(source) |-> source[p[i]]]

\* C17: no two claims of a name tie on height and output index, and so the
\* sequence order depends on the set of claims only: seqSort gives the same
\* sequence for every bid order of the claims.
C17_SequenceDeterminedBySet ==
    SeqReturned =>
        /\ \A i, j \in 1..Len(source) :
            i # j => \/ source[i].claim.nHeight # source[j].claim.nHeight
                     \/ source[i].claim.outPoint.n # source[j].claim.outPoint.n
        /\ \A p \in IndexPermutations[Len(source)] :
            seqSort(Reordered(p)) = { seqOrder }

(* ------------------------------------------------------------------ *)
(* The live tip: properties (checked under Spec)                       *)
(* ------------------------------------------------------------------ *)

\* C18: no step of a query, whether its rewind succeeds or fails, changes the
\* live tip (the active chain's tip, the tip's output set, the base registry
\* with its identifier index); the blocks disconnected are gone with the
\* query's caches, and the rewind of a following query starts from the tip with
\* fresh caches.
C18_LiveTipUnchanged ==
    [][ /\ chainTip' = chainTip
        /\ pcoinsTipUsage' = pcoinsTipUsage
        /\ claimIndex' = claimIndex
        /\ pc' = "idle" => (disconnects' = << >> /\ coinsCacheUsage' = 0)
        /\ (pc = "RollBackTo" /\ pc' = "loop") =>
                /\ activeIndex' = TipHeight
                /\ disconnects' = << >>
                /\ coinsCacheUsage' = 0 ]_vars

\* a rewind that failed after it had disconnected blocks, the tip where it was
C18_Witness ==
    /\ pc = "failed"
    /\ historical
    /\ Len(disconnects) >= 2
    /\ activeIndex < chainTip
    /\ chainTip = TipHeight

====
